---- MODULE Spec2Model ----
(***************************************************************************)
(* ADEDatasetMapper.__call__ of                                            *)
(* src/mask2former/data/dataset_mappers/ade_all_task_dataset_mapper.py     *)
(* as a state machine: one action per block of statements, the Python      *)
(* exceptions as the terminal state pc = "raised".                         *)
(*                                                                         *)
(* Arrays are nested sequences (a[row][col], 1-based); an array value      *)
(* carries its Python type ("ndarray" or "Tensor") because two statements  *)
(* of the semantic block behave differently on the two types.  Box and     *)
(* shape coordinates are the 0-based numbers the code produces.            *)
(***************************************************************************)
EXTENDS Integers, Sequences, FiniteSets, TLC

VARIABLES
    cfg,            \* self: is_train, ignore_label, size_divisibility
    heap,           \* the dict objects: heap[1] is the caller's record
    input0,         \* the caller's record as it was when the call began
    dataset_dict,   \* the local name dataset_dict: an index in heap
    image,          \* local image
    sem_seg_gt,     \* local sem_seg_gt (NoneVal when there is none)
    pan_seg_gt,     \* local pan_seg_gt
    segments_info,  \* local segments_info
    transforms,     \* the transform the augmentation pipeline returned
    image_shape,    \* local image_shape
    stage_in,       \* the (image, sem_seg_gt) pair the semantic block began with
    pc,             \* position in __call__
    err             \* the exception raised, "" when none

vars == <<cfg, heap, input0, dataset_dict, image, sem_seg_gt, pan_seg_gt,
          segments_info, transforms, image_shape, stage_in, pc, err>>

----------------------------------------------------------------------------
(* Bounds of the model *)

MaxH == 2
MaxW == 2
MaxDiv == 3

(* Channels of a decoded image, and the fill of line 175 *)
NumChannels == 3
GrayFill == 128

----------------------------------------------------------------------------
(* Python values *)

NoneVal == [type |-> "None", a |-> <<>>]
NdArray(a) == [type |-> "ndarray", a |-> a]
Tensor(a) == [type |-> "Tensor", a |-> a]

(* x.shape of a 2-D and of a 3-D array *)
Shape2(a) == <<Len(a), Len(a[1])>>
Shape3(a) == <<Len(a), Len(a[1]), Len(a[1][1])>>

(* d[k] = v *)
DictSet(d, k, v) == [x \in (DOMAIN d) \cup {k} |-> IF x = k THEN v ELSE d[x]]

(* d.pop(k): the dict it leaves (DictPopKeepsKey: a read that removes      *)
(* nothing, d[k] in place of d.pop(k))                                     *)
DictPopKeepsKey(d, k) == d
DictPop(d, k) == [x \in (DOMAIN d) \ {k} |-> d[x]]

(* copy.deepcopy(obj) of the object at index r: a new object with equal   *)
(* content; the result is the new heap and the index of the copy           *)
(* (DeepcopyAlias: no copy, the same object under the new name).           *)
DeepcopyAlias(h, r) == <<h, r>>
Deepcopy(h, r) == <<Append(h, h[r]), Len(h) + 1>>

----------------------------------------------------------------------------
(* Files and records the dataset supplies *)

ImagePath == "img.jpg"
SemPath == "sem.png"
PanPath == "pan.png"

(* a decoded H x W x C image: a test pattern, every value below GrayFill *)
ImageFile(h, w) ==
    [r \in 1..h |-> [c \in 1..w |-> [k \in 1..NumChannels |-> 10 * r + c + k]]]

Arrays(h, w, V) == [1..h -> [1..w -> V]]

(* colours of the panoptic PNG; rgb2id maps them to the ids 1 and 256 *)
PanColors == {<<1, 0, 0>>, <<0, 1, 0>>}
SegIds == {1, 256}
Categories == {3, 7}

SegmentRecords ==
    [id : SegIds, category_id : Categories, iscrowd : BOOLEAN, isthing : BOOLEAN]

(* segment tables: ordered, the ids unique within one image *)
SegmentTables ==
    {<<>>}
    \cup {<<s>> : s \in SegmentRecords}
    \cup {p \in SegmentRecords \X SegmentRecords : p[1].id # p[2].id}

(* values of the configured ignore_label, and of a semantic label pixel *)
IgnoreLabels == {0, 255}
SemLabels == {0, 1, 255}

(* the transforms the augmentation pipeline may return *)
Tfms == {"NoOp", "HFlip"}

----------------------------------------------------------------------------
(* Array operations of numpy, torch, detectron2 and panopticapi *)

HFlip(a) ==
    [r \in 1..Len(a) |-> [c \in 1..Len(a[1]) |-> a[r][Len(a[1]) + 1 - c]]]

(* Transform.apply_image / apply_segmentation: the same map for both *)
ApplyTransform(t, a) == IF t = "HFlip" THEN HFlip(a) ELSE a

(* panopticapi.utils.rgb2id: R + 256 G + 256^2 B at every pixel *)
rgb2id(color) ==
    [r \in 1..Len(color) |-> [c \in 1..Len(color[1]) |->
        color[r][c][1] + 256 * color[r][c][2] + 256 * 256 * color[r][c][3]]]

(* ndarray.transpose(2, 0, 1): H x W x C to C x H x W *)
Transpose201(a) ==
    [k \in 1..Len(a[1][1]) |-> [r \in 1..Len(a) |-> [c \in 1..Len(a[1]) |->
        a[r][c][k]]]]

(* the boolean array (a == v)  (EqMaskGe: a >= v in its place) *)
EqMaskGe(a, v) == [r \in 1..Len(a) |-> [c \in 1..Len(a[1]) |-> a[r][c] >= v]]
EqMask(a, v) == [r \in 1..Len(a) |-> [c \in 1..Len(a[1]) |-> a[r][c] = v]]

(* torch.zeros((0, H, W)) and torch.stack(masks): shape and content *)
EmptyMasks(a) == [shape |-> <<0, Len(a), Len(a[1])>>, data |-> <<>>]
StackMasks(masks) ==
    [shape |-> <<Len(masks), Len(masks[1]), Len(masks[1][1])>>, data |-> masks]

----------------------------------------------------------------------------
(* Target builders *)

(* line 117: the panoptic loop keeps a segment *)
PanKeeps(s) == ~s.iscrowd

(* lines 142-143: the instance loop keeps a segment  (InsKeepsStuff: the   *)
(* isthing test left out)                                                  *)
InsKeepsStuff(s) == "iscrowd" \notin DOMAIN s \/ s.iscrowd = FALSE
InsKeeps(s) == ("iscrowd" \notin DOMAIN s \/ s.iscrowd = FALSE) /\ s.isthing

(* lines 113-119: the loop over segments_info, appending to classes and masks *)
RECURSIVE PanLoop(_, _, _, _)
PanLoop(segs, pan, classes, masks) ==
    IF segs = <<>> THEN [classes |-> classes, masks |-> masks]
    ELSE LET s == Head(segs) IN
         IF PanKeeps(s)
         THEN PanLoop(Tail(segs), pan, Append(classes, s.category_id),
                      Append(masks, EqMask(pan, s.id)))
         ELSE PanLoop(Tail(segs), pan, classes, masks)

(* lines 138-145 *)
RECURSIVE InsLoop(_, _, _, _)
InsLoop(segs, pan, classes, masks) ==
    IF segs = <<>> THEN [classes |-> classes, masks |-> masks]
    ELSE LET s == Head(segs) IN
         IF InsKeeps(s)
         THEN InsLoop(Tail(segs), pan, Append(classes, s.category_id),
                      Append(masks, EqMask(pan, s.id)))
         ELSE InsLoop(Tail(segs), pan, classes, masks)

(* torch.where(b)[0]: the 0-based indices at which b holds, ascending *)
Where(b) == SelectSeq([i \in 1..Len(b) |-> i - 1], LAMBDA i : b[i + 1])

(* BitMasks.get_bounding_boxes for one mask: x_any = any(dim=1) over the  *)
(* rows, y_any = any(dim=2) over the columns, the box                      *)
(* [x[0], y[0], x[-1] + 1, y[-1] + 1], and zeros for a mask with no pixel. *)
BoxOf(m) ==
    LET x_any == [c \in 1..Len(m[1]) |-> \E r \in 1..Len(m) : m[r][c]]
        y_any == [r \in 1..Len(m) |-> \E c \in 1..Len(m[1]) : m[r][c]]
        x == Where(x_any)
        y == Where(y_any)
    IN  IF Len(x) > 0 /\ Len(y) > 0
        THEN <<x[1], y[1], x[Len(x)] + 1, y[Len(y)] + 1>>
        ELSE <<0, 0, 0, 0>>

get_bounding_boxes(masks) ==
    [shape |-> <<Len(masks), 4>>, data |-> [i \in 1..Len(masks) |-> BoxOf(masks[i])]]

(* lines 5-14: the names the module imports; Boxes is not one of them *)
ImportedNames == {"copy", "logging", "np", "torch", "F", "configurable", "utils",
                  "T", "BitMasks", "Instances", "MaskFormerSemanticDatasetMapper"}

(* lines 110-130: the panoptic Instances *)
PanInstances(shape, segs, pan) ==
    LET l == PanLoop(segs, pan, <<>>, <<>>) IN
    [image_size |-> shape,
     gt_classes |-> l.classes,
     gt_masks |-> IF Len(l.masks) = 0 THEN EmptyMasks(pan) ELSE StackMasks(l.masks)]

(* lines 137-158, when it raises nothing  (InsInstancesPanBoxes: the boxes *)
(* taken from the masks of the panoptic loop)                              *)
InsInstancesPanBoxes(shape, segs, pan) ==
    LET l == InsLoop(segs, pan, <<>>, <<>>)
        pl == PanLoop(segs, pan, <<>>, <<>>)
    IN
    [image_size |-> shape,
     gt_classes |-> l.classes,
     gt_masks |-> IF Len(l.masks) = 0 THEN EmptyMasks(pan) ELSE StackMasks(l.masks),
     gt_boxes |-> IF Len(l.masks) = 0
                  THEN [shape |-> <<0, 4>>, data |-> <<>>]
                  ELSE get_bounding_boxes(pl.masks)]

InsInstances(shape, segs, pan) ==
    LET l == InsLoop(segs, pan, <<>>, <<>>) IN
    [image_size |-> shape,
     gt_classes |-> l.classes,
     gt_masks |-> IF Len(l.masks) = 0 THEN EmptyMasks(pan) ELSE StackMasks(l.masks),
     gt_boxes |-> IF Len(l.masks) = 0
                  THEN [shape |-> <<0, 4>>, data |-> <<>>]
                  ELSE get_bounding_boxes(l.masks)]

----------------------------------------------------------------------------
(* The records a caller passes *)

WithKey(d, present, k, v) == IF present THEN DictSet(d, k, v) ELSE d

(* "height"/"width" are both left out, or both given as 1 (any larger image *)
(* then fails check_image_size); "segments_info" comes only with           *)
(* "pan_seg_file_name", which may also come without it.                    *)
SizeOptions == {<<>>, <<1, 1>>}
TableOptions == {<<>>} \cup {<<t>> : t \in SegmentTables}

InputRecord(sem, pan, tab, ann, size) ==
    LET d1 == [file_name |-> ImagePath]
        d2 == WithKey(d1, sem, "sem_seg_file_name", SemPath)
        d3 == WithKey(d2, pan, "pan_seg_file_name", PanPath)
        d4 == WithKey(d3, tab # <<>>, "segments_info", IF tab # <<>> THEN tab[1] ELSE <<>>)
        d5 == WithKey(d4, ann, "annotations", <<>>)
        d6 == WithKey(d5, size # <<>>, "height", IF size # <<>> THEN size[1] ELSE 0)
    IN  WithKey(d6, size # <<>>, "width", IF size # <<>> THEN size[2] ELSE 0)

InputRecords ==
    {InputRecord(sem, pan, tab, ann, size) :
        sem \in BOOLEAN, pan \in BOOLEAN, ann \in BOOLEAN, size \in SizeOptions,
        tab \in TableOptions}

Configs == [is_train : BOOLEAN, ignore_label : {255}, size_divisibility : {MaxDiv}]

Init ==
    /\ cfg \in Configs
    /\ input0 \in {d \in InputRecords :
                      "segments_info" \in DOMAIN d => "pan_seg_file_name" \in DOMAIN d}
    /\ heap = <<input0>>
    /\ dataset_dict = 1
    /\ image = NoneVal
    /\ sem_seg_gt = NoneVal
    /\ pan_seg_gt = NoneVal
    /\ segments_info = <<>>
    /\ transforms = "unset"
    /\ image_shape = <<>>
    /\ stage_in = <<>>
    /\ pc = "start"
    /\ err = ""

----------------------------------------------------------------------------
(* __call__, block by block *)

(* an exception leaves __call__: the frame's array locals are gone; the  *)
(* copy of the record is kept as the failed call left it                   *)
Raise(e) ==
    /\ pc' = "raised"
    /\ err' = e
    /\ image' = NoneVal
    /\ sem_seg_gt' = NoneVal
    /\ pan_seg_gt' = NoneVal
    /\ segments_info' = <<>>
    /\ transforms' = "unset"
    /\ image_shape' = <<>>

(* the dict dataset_dict names *)
D == heap[dataset_dict]

(* utils.check_image_size(dataset_dict, image): the error it raises, or "" *)
SizeMismatch(d, a) ==
    /\ "width" \in DOMAIN d \/ "height" \in DOMAIN d
    /\ <<Len(a[1]), Len(a)>> # <<d["width"], d["height"]>>

(* ... and the dict it leaves: width and height filled in when absent *)
WithImageSize(d, a) ==
    LET d1 == IF "width" \in DOMAIN d THEN d ELSE DictSet(d, "width", Len(a[1]))
    IN  IF "height" \in DOMAIN d1 THEN d1 ELSE DictSet(d1, "height", Len(a))

(* lines 67-71: assert, deepcopy, read_image, check_image_size *)
LoadImage ==
    /\ pc = "start"
    /\ IF ~cfg.is_train
       THEN /\ Raise("AssertionError")
            /\ UNCHANGED <<heap, dataset_dict>>
       ELSE \E h \in 1..MaxH, w \in 1..MaxW :
            LET cp == Deepcopy(heap, dataset_dict)
                a == ImageFile(h, w)
                d == cp[1][cp[2]]
            IN  /\ dataset_dict' = cp[2]
                /\ IF SizeMismatch(d, a)
                   THEN /\ heap' = cp[1]
                        /\ Raise("SizeMismatchError")
                   ELSE /\ heap' = [cp[1] EXCEPT ![cp[2]] = WithImageSize(d, a)]
                        /\ image' = NdArray(a)
                        /\ pc' = "load_sem"
                        /\ UNCHANGED <<err, sem_seg_gt, pan_seg_gt, segments_info,
                                       transforms, image_shape>>
    /\ UNCHANGED <<cfg, input0, stage_in>>

(* the label files read in a call: as large as the image *)
SemFiles(h, w) == {[r \in 1..h |-> [c \in 1..w |-> c % 2]]}
PanFiles(h, w) == Arrays(h, w, PanColors)

(* lines 74-78: pop "sem_seg_file_name" and read it, or None *)
LoadSemSeg ==
    /\ pc = "load_sem"
    /\ IF "sem_seg_file_name" \in DOMAIN D
       THEN /\ heap' = [heap EXCEPT ![dataset_dict] = DictPop(D, "sem_seg_file_name")]
            /\ \E a \in SemFiles(Len(image.a), Len(image.a[1])) :
                   sem_seg_gt' = NdArray(a)
       ELSE /\ sem_seg_gt' = NoneVal
            /\ heap' = heap
    /\ pc' = "augment"
    /\ UNCHANGED <<cfg, input0, dataset_dict, image, pan_seg_gt, segments_info,
                   transforms, image_shape, stage_in, err>>

(* lines 80-86: the augmentation, and image_shape from the H x W x C array *)
Augment ==
    /\ pc = "augment"
    /\ \E t \in Tfms :
        /\ transforms' = t
        /\ image' = NdArray(ApplyTransform(t, image.a))
        /\ sem_seg_gt' = IF sem_seg_gt.type # "None"
                         THEN NdArray(ApplyTransform(t, sem_seg_gt.a))
                         ELSE sem_seg_gt
    /\ image_shape' = <<Shape3(image'.a)[2], Shape3(image'.a)[3]>>
    /\ pc' = IF "pan_seg_file_name" \in DOMAIN D THEN "pan_load" ELSE "return"
    /\ UNCHANGED <<cfg, heap, input0, dataset_dict, pan_seg_gt, segments_info,
                   stage_in, err>>

(* lines 89-108: pop and read the panoptic PNG, segments_info, the same   *)
(* transform, rgb2id, the tensors, and the "annotations" check             *)
PanLoad ==
    /\ pc = "pan_load"
    /\ heap' = [heap EXCEPT ![dataset_dict] = DictPop(D, "pan_seg_file_name")]
    /\ IF "segments_info" \notin DOMAIN D
       THEN Raise("KeyError")
       ELSE IF "annotations" \in DOMAIN D
       THEN Raise("ValueError")
       ELSE \E rgb \in PanFiles(Len(image.a), Len(image.a[1])) :
            /\ segments_info' = D["segments_info"]
            /\ pan_seg_gt' = Tensor(rgb2id(ApplyTransform(transforms, rgb)))
            /\ image' = Tensor(Transpose201(image.a))
            /\ sem_seg_gt' = IF sem_seg_gt.type # "None"
                             THEN Tensor(sem_seg_gt.a)
                             ELSE sem_seg_gt
            /\ pc' = "pan_targets"
            /\ UNCHANGED <<err, transforms, image_shape>>
    /\ UNCHANGED <<cfg, input0, dataset_dict, stage_in>>

(* lines 110-132 *)
PanTargets ==
    /\ pc = "pan_targets"
    /\ pan_seg_gt' = NdArray(pan_seg_gt.a)
    /\ heap' = [heap EXCEPT ![dataset_dict] =
                   DictSet(D, "pan_instances",
                           PanInstances(image_shape, segments_info, pan_seg_gt.a))]
    /\ pc' = "ins_targets"
    /\ UNCHANGED <<cfg, input0, dataset_dict, image, sem_seg_gt, segments_info,
                   transforms, image_shape, stage_in, err>>

(* lines 135-160: line 152 names Boxes, which the module does not import *)
InsTargets ==
    /\ pc = "ins_targets"
    /\ LET ins == InsInstances(image_shape, segments_info, pan_seg_gt.a) IN
       IF Len(ins.gt_classes) = 0 /\ "Boxes" \notin ImportedNames
       THEN /\ Raise("NameError")
            /\ heap' = heap
       ELSE /\ heap' = [heap EXCEPT ![dataset_dict] = DictSet(D, "ins_instances", ins)]
            /\ pc' = IF sem_seg_gt.type # "None" THEN "sem_block" ELSE "return"
            /\ UNCHANGED <<err, image, sem_seg_gt, pan_seg_gt, segments_info,
                           transforms, image_shape>>
    /\ UNCHANGED <<cfg, input0, dataset_dict, stage_in>>

(* lines 165-166: ndarray.transpose(2, 0, 1) and ndarray.astype("long");   *)
(* a Tensor has transpose(dim0, dim1) only, and no astype                  *)
SemToTensor ==
    /\ pc = "sem_block"
    /\ IF image.type = "Tensor"
       THEN Raise("TypeError")
       ELSE IF sem_seg_gt.type = "Tensor"
       THEN Raise("AttributeError")
       ELSE /\ image' = Tensor(Transpose201(image.a))
            /\ sem_seg_gt' = Tensor(sem_seg_gt.a)
            /\ pc' = "pad"
            /\ UNCHANGED <<err, pan_seg_gt, segments_info, transforms, image_shape>>
    /\ UNCHANGED <<cfg, heap, input0, dataset_dict, stage_in>>

(* line 216 *)
Return ==
    /\ pc = "return"
    /\ pc' = "done"
    /\ UNCHANGED <<cfg, heap, input0, dataset_dict, image, sem_seg_gt, pan_seg_gt,
                   segments_info, transforms, image_shape, stage_in, err>>

Next ==
    \/ LoadImage
    \/ LoadSemSeg
    \/ Augment
    \/ PanLoad
    \/ PanTargets
    \/ InsTargets
    \/ SemToTensor
    \/ Return

Spec == Init /\ [][Next]_vars

----------------------------------------------------------------------------
(* The semantic block, lines 164-214.  A call never gets past line 165     *)
(* (NoSemanticBlockInCall below), so the statements after it are checked   *)
(* from the inputs they are written for: image and sem_seg_gt as ndarrays. *)

(* F.pad(x, [0, pw, 0, ph], value=fill) on the last two dimensions: rows   *)
(* and columns are added at the bottom and right, and a negative amount    *)
(* removes them.                                                           *)
Pad2(a, pw, ph, fill) ==
    [r \in 1..(Len(a) + ph) |-> [c \in 1..(Len(a[1]) + pw) |->
        IF r <= Len(a) /\ c <= Len(a[1]) THEN a[r][c] ELSE fill]]

(* lines 168-174: [left, right, top, bottom] *)
PaddingSize(div, image_size) == <<0, div - image_size[2], 0, div - image_size[1]>>

(* np.unique: the distinct values, ascending *)
RECURSIVE SortSet(_)
SortSet(S) ==
    IF S = {} THEN <<>>
    ELSE LET m == CHOOSE x \in S : \A y \in S : x <= y
         IN  <<m>> \o SortSet(S \ {m})

np_unique(a) == SortSet({a[r][c] : r \in 1..Len(a), c \in 1..Len(a[1])})

(* lines 189-191  (SemClassesKeepIgnore: line 191 left out) *)
SemClassesKeepIgnore(a, ignore) == np_unique(a)
SemClasses(a, ignore) == SelectSeq(np_unique(a), LAMBDA v : v # ignore)

(* lines 188-212 *)
SemInstances(shape, a, ignore) ==
    LET sem_classes == SemClasses(a, ignore)
        sem_masks == [i \in 1..Len(sem_classes) |-> EqMask(a, sem_classes[i])]
    IN  [image_size |-> shape,
         gt_classes |-> sem_classes,
         gt_masks |-> IF Len(sem_masks) = 0 THEN EmptyMasks(a) ELSE StackMasks(sem_masks)]

(* lines 167-184: the padding, the padded image_shape, "image", "sem_seg" *)
Pad ==
    /\ pc = "pad"
    /\ LET image_size == <<Len(image.a[1]), Len(image.a[1][1])>>
           p == PaddingSize(cfg.size_divisibility, image_size)
           img == IF cfg.size_divisibility > 0
                  THEN Tensor([k \in 1..Len(image.a) |->
                                  Pad2(image.a[k], p[2], p[4], GrayFill)])
                  ELSE image
           sem == IF cfg.size_divisibility > 0
                  THEN Tensor(Pad2(sem_seg_gt.a, p[2], p[4], cfg.ignore_label))
                  ELSE sem_seg_gt
       IN  /\ image' = img
           /\ sem_seg_gt' = sem
           /\ image_shape' = <<Len(img.a[1]), Len(img.a[1][1])>>
           /\ heap' = [heap EXCEPT ![dataset_dict] =
                          DictSet(DictSet(D, "image", img), "sem_seg", sem)]
    /\ pc' = "sem_targets"
    /\ UNCHANGED <<cfg, input0, dataset_dict, pan_seg_gt, segments_info, transforms,
                   stage_in, err>>

(* lines 186-214 *)
SemTargets ==
    /\ pc = "sem_targets"
    /\ sem_seg_gt' = NdArray(sem_seg_gt.a)
    /\ heap' = [heap EXCEPT ![dataset_dict] =
                   DictSet(D, "sem_instances",
                           SemInstances(image_shape, sem_seg_gt.a, cfg.ignore_label))]
    /\ pc' = "return"
    /\ UNCHANGED <<cfg, input0, dataset_dict, image, pan_seg_gt, segments_info,
                   transforms, image_shape, stage_in, err>>

(* size_divisibility: none, one below, one equal to and one above the     *)
(* sizes of the images                                                     *)
StageConfigs ==
    [is_train : {TRUE}, ignore_label : IgnoreLabels,
     size_divisibility : {0, 1, MaxDiv}]

StageInit ==
    /\ cfg \in StageConfigs
    /\ input0 = InputRecord(TRUE, TRUE, <<<<>>>>, FALSE, <<>>)
    /\ \E h \in 1..MaxH, w \in 1..MaxW :
        /\ image = NdArray(ImageFile(h, w))
        /\ sem_seg_gt \in {NdArray(a) : a \in Arrays(h, w, SemLabels)}
        /\ heap = <<input0,
                    [file_name |-> ImagePath, segments_info |-> <<>>,
                     height |-> h, width |-> w]>>
        /\ image_shape = <<w, NumChannels>>
    /\ dataset_dict = 2
    /\ pan_seg_gt = NoneVal
    /\ segments_info = <<>>
    /\ transforms = "NoOp"
    /\ stage_in = [image |-> image, sem_seg_gt |-> sem_seg_gt]
    /\ pc = "sem_block"
    /\ err = ""

StageNext ==
    \/ SemToTensor
    \/ Pad
    \/ SemTargets
    \/ Return

SemSpec == StageInit /\ [][StageNext]_vars

(* calls and runs of the semantic block together *)
AllInit == Init \/ StageInit
AllNext == Next \/ StageNext
AllSpec == AllInit /\ [][AllNext]_vars

----------------------------------------------------------------------------
(* Properties *)

Out == heap[dataset_dict]
Returned == pc = "done"
Ended == pc \in {"done", "raised"}
LabelMap == pan_seg_gt.a

(* No call reaches the statements after line 165: the image is a Tensor    *)
(* since line 101, and no dict of a call ever holds a semantic target.     *)
NoSemanticBlockInCall ==
    /\ pc \notin {"pad", "sem_targets"}
    /\ \A i \in 1..Len(heap) :
         {"sem_instances", "image", "sem_seg"} \cap DOMAIN heap[i] = {}

(* bundle b lists, in table order, exactly the segments of segs that Keep  *)
(* holds of: class and mask (LabelMap == id) of each                       *)
ListsKept(b, segs, Keep(_)) ==
    LET n == Len(b.gt_classes) IN
    /\ Len(b.gt_masks.data) = n
    /\ \E f \in [1..n -> 1..Len(segs)] :
         /\ \A i, j \in 1..n : i < j => f[i] < f[j]
         /\ {f[i] : i \in 1..n} = {k \in 1..Len(segs) : Keep(segs[k])}
         /\ \A i \in 1..n :
              /\ b.gt_classes[i] = segs[f[i]].category_id
              /\ \A r \in 1..Len(LabelMap), c \in 1..Len(LabelMap[1]) :
                   b.gt_masks.data[i][r][c] = (LabelMap[r][c] = segs[f[i]].id)

(* C1: in a call that has not failed, the panoptic bundle is, in           *)
(* segment-table order, exactly the (category_id, LabelMap == id) of the   *)
(* segments with is_crowd false, and the instance bundle the same          *)
(* restricted to is_thing true; no other segment contributes to either.    *)
C1_BundlesListKeptSegments ==
    pc # "raised" =>
    /\ "pan_instances" \in DOMAIN Out =>
         ListsKept(Out["pan_instances"], segments_info,
                   LAMBDA s : s.iscrowd = FALSE)
    /\ "ins_instances" \in DOMAIN Out =>
         ListsKept(Out["ins_instances"], segments_info,
                   LAMBDA s : s.iscrowd = FALSE /\ s.isthing = TRUE)

(* a returned record whose first segment is stuff and whose second is a    *)
(* thing of another category: two panoptic targets, one instance target    *)
C1_Witness ==
    /\ Returned
    /\ Len(segments_info) = 2
    /\ ~segments_info[1].isthing
    /\ segments_info[1].category_id # segments_info[2].category_id
    /\ Len(Out["pan_instances"].gt_classes) = 2
    /\ Len(Out["ins_instances"].gt_classes) = 1
    /\ \E r \in 1..Len(LabelMap), c \in 1..Len(LabelMap[1]) :
         Out["ins_instances"].gt_masks.data[1][r][c]

(* C2: a returned record holds pan_instances and ins_instances when        *)
(* panoptic input was given, holds sem_instances, image and sem_seg when a *)
(* semantic label was given, and holds none of those three when it was not. *)
C2_OutputFields ==
    Returned =>
      /\ ("pan_seg_file_name" \in DOMAIN input0 /\ "segments_info" \in DOMAIN input0)
           => {"pan_instances", "ins_instances"} \subseteq DOMAIN Out
      /\ "sem_seg_file_name" \in DOMAIN input0
           => {"sem_instances", "image", "sem_seg"} \subseteq DOMAIN Out
      /\ "sem_seg_file_name" \notin DOMAIN input0
           => {"sem_instances", "image", "sem_seg"} \cap DOMAIN Out = {}

(* the height and width the semantic block began with, and what the      *)
(* padding stage is to make of one of them                                 *)
StageH == Len(stage_in.image.a)
StageW == Len(stage_in.image.a[1])
Max0(x) == IF x > 0 THEN x ELSE 0
PaddedTo(div, n) == n + Max0(div - n)

C4_EmptyAnnotationReturns ==
    (/\ Ended
     /\ "pan_instances" \in DOMAIN Out
     /\ "sem_seg_file_name" \notin DOMAIN input0
     /\ \A k \in 1..Len(Out["segments_info"]) :
          Out["segments_info"][k].iscrowd \/ ~Out["segments_info"][k].isthing) =>
      /\ Returned
      /\ "ins_instances" \in DOMAIN Out
      /\ Out["ins_instances"].gt_classes = <<>>
      /\ Out["ins_instances"].gt_masks.shape = <<0, Len(LabelMap), Len(LabelMap[1])>>
      /\ Out["ins_instances"].gt_boxes.shape = <<0, 4>>
      /\ (\A k \in 1..Len(segments_info) : segments_info[k].iscrowd) =>
           /\ Out["pan_instances"].gt_classes = <<>>
           /\ Out["pan_instances"].gt_masks.shape
                = <<0, Len(LabelMap), Len(LabelMap[1])>>

(* the values of the label array a *)
ValuesOf(a) == {a[r][c] : r \in 1..Len(a), c \in 1..Len(a[1])}

C6_NoPathField ==
    Returned =>
      {"file_name", "sem_seg_file_name", "pan_seg_file_name"} \cap DOMAIN Out = {}

(* C6 as amended: a returned record holds neither sem_seg_file_name nor    *)
(* pan_seg_file_name, and holds file_name as the caller gave it.           *)
C6_NoLabelPathField ==
    Returned =>
      /\ {"sem_seg_file_name", "pan_seg_file_name"} \cap DOMAIN Out = {}
      /\ "file_name" \in DOMAIN Out
      /\ Out["file_name"] = input0["file_name"]

(* a returned record whose panoptic file was read *)
C6_Witness ==
    /\ Returned
    /\ "pan_seg_file_name" \in DOMAIN input0
    /\ "pan_instances" \in DOMAIN Out

(* C7: a record with "annotations" and panoptic fields makes the call fail *)
(* and return no record, and the caller's record stays as it was.          *)
C7_AnnotationsFailCallerUntouched ==
    ("annotations" \in DOMAIN input0 /\ "pan_seg_file_name" \in DOMAIN input0) =>
      /\ heap[1] = input0
      /\ pc \in {"start", "load_sem", "augment", "pan_load", "raised"}
      /\ pc = "raised" => err # ""

(* the ValueError of line 108, after both path fields were popped from the *)
(* copy                                                                    *)
C7_Witness ==
    /\ pc = "raised"
    /\ err = "ValueError"
    /\ "sem_seg_file_name" \in DOMAIN input0
    /\ {"sem_seg_file_name", "pan_seg_file_name"} \cap DOMAIN Out = {}
    /\ {"sem_seg_file_name", "pan_seg_file_name"} \subseteq DOMAIN heap[1]

(* (height, width) of the image, a C x H x W tensor once line 101 or 165  *)
(* has run                                                                 *)
ImageHW == <<Len(image.a[1]), Len(image.a[1][1])>>

(* C8: the panoptic and instance bundles carry the (height, width) of the  *)
(* transformed, unpadded image, which is also the shape of their masks;    *)
(* the semantic bundle carries the (height, width) of the padded image,    *)
(* which is also the shape of its masks and of sem_seg.                    *)
C8_ReferenceShapes ==
    Returned =>
      /\ "pan_instances" \in DOMAIN Out =>
           /\ Out["pan_instances"].image_size = ImageHW
           /\ Out["ins_instances"].image_size = ImageHW
           /\ Shape2(LabelMap) = ImageHW
      /\ "sem_instances" \in DOMAIN Out =>
           /\ Out["sem_instances"].image_size = ImageHW
           /\ Shape2(Out["sem_seg"].a) = ImageHW

(* in bundle b no pixel is set in two masks, and the set pixels of mask i  *)
(* all hold in label the one value Stands(i)                               *)
DisjointAndLabelled(b, label, Stands(_)) ==
    LET n == Len(b.gt_masks.data) IN
    \A r \in 1..Len(label), c \in 1..Len(label[1]) :
      /\ \A i, j \in 1..n :
           (i # j /\ b.gt_masks.data[i][r][c]) => ~b.gt_masks.data[j][r][c]
      /\ \A i \in 1..n : b.gt_masks.data[i][r][c] => label[r][c] = Stands(i)

(* the id of the i-th segment of the table that Keep holds of *)
KeptId(Keep(_), i) ==
    LET kept == SelectSeq(segments_info, Keep) IN
    IF i <= Len(kept) THEN kept[i].id ELSE -1

(* C9: in every bundle of a call that has not failed, and of a run of the *)
(* semantic block, the masks are pairwise disjoint, and every pixel set in *)
(* mask i holds the segment id (panoptic, instance) or the class id        *)
(* (semantic) that index i stands for.                                     *)
C9_MasksDisjoint ==
    pc # "raised" =>
    /\ "pan_instances" \in DOMAIN Out =>
         DisjointAndLabelled(Out["pan_instances"], LabelMap,
             LAMBDA i : KeptId(LAMBDA s : ~s.iscrowd, i))
    /\ "ins_instances" \in DOMAIN Out =>
         DisjointAndLabelled(Out["ins_instances"], LabelMap,
             LAMBDA i : KeptId(LAMBDA s : ~s.iscrowd /\ s.isthing, i))
    /\ "sem_instances" \in DOMAIN Out =>
         DisjointAndLabelled(Out["sem_instances"], Out["sem_seg"].a,
             LAMBDA i : Out["sem_instances"].gt_classes[i])

(* a returned panoptic bundle of two masks, each with a pixel *)
C9_Witness ==
    /\ Returned
    /\ "pan_instances" \in DOMAIN Out
    /\ Len(Out["pan_instances"].gt_masks.data) = 2
    /\ \A i \in 1..2 : \E r \in 1..Len(LabelMap), c \in 1..Len(LabelMap[1]) :
         Out["pan_instances"].gt_masks.data[i][r][c]

(* box is the tight box of mask m, in the 0-based XYXY form with the far   *)
(* edges one past the last set column and row; zeros when m has no pixel   *)
TightBox(m, box) ==
    LET set == {p \in (1..Len(m)) \X (1..Len(m[1])) : m[p[1]][p[2]]} IN
    IF set = {} THEN box = <<0, 0, 0, 0>>
    ELSE /\ \A p \in set : box[1] <= p[2] - 1 /\ p[2] <= box[3]
                           /\ box[2] <= p[1] - 1 /\ p[1] <= box[4]
         /\ \E p \in set : p[2] - 1 = box[1]
         /\ \E p \in set : p[2] = box[3]
         /\ \E p \in set : p[1] - 1 = box[2]
         /\ \E p \in set : p[1] = box[4]

(* C10: in the instance bundle of a call that has not failed, classes,     *)
(* masks and boxes have one length, and boxes[i] is the tight bounding box *)
(* of the set pixels of masks[i].                                          *)
C10_BoxesFromMasks ==
    (pc # "raised" /\ "ins_instances" \in DOMAIN Out) =>
      LET b == Out["ins_instances"]
          n == Len(b.gt_classes)
      IN  /\ Len(b.gt_masks.data) = n
          /\ Len(b.gt_boxes.data) = n
          /\ b.gt_masks.shape[1] = n
          /\ b.gt_boxes.shape = <<n, 4>>
          /\ \A i \in 1..n : TightBox(b.gt_masks.data[i], b.gt_boxes.data[i])

(* a returned instance bundle of two boxes, the first a single pixel away  *)
(* from the left and top edges                                             *)
C10_Witness ==
    /\ Returned
    /\ "ins_instances" \in DOMAIN Out
    /\ Len(Out["ins_instances"].gt_boxes.data) = 2
    /\ Out["ins_instances"].gt_boxes.data[1] = <<1, 1, 2, 2>>
    /\ Out["ins_instances"].gt_boxes.data[2] = <<0, 0, 2, 2>>

====
